---- MODULE Spec2Model ----
(***************************************************************************)
(* A model of the instance state layer of vue-comments:                    *)
(*   src/src/core/instance/state.js  (proxy, initComputed, computedGetter,  *)
(*                                    $watch)                               *)
(*   src/unnamed/part_000            (initProvide, initInjections,          *)
(*                                    resolveInject)                        *)
(*   src/src/core/instance/init.js   (_init)                                *)
(* The observer core the layer calls into (Watcher, Dep, defineReactive,    *)
(* the scheduler) is not part of the sources at hand; it is modelled from   *)
(* the written specification of the core.                                   *)
(***************************************************************************)
EXTENDS Integers, Sequences, FiniteSets, TLC

(***************************************************************************)
(* JavaScript values held by data fields and watchers.                     *)
(***************************************************************************)
Num(k) == [t |-> "number", n |-> k]

NaN == [t |-> "NaN", n |-> 0]

Undefined == [t |-> "undefined", n |-> 0]

\* the values data fields are given: a number, and NaN (falsy, and not === to itself)
Vals == {Num(1), NaN}

\* x === y
StrictEq(x, y) == x = y /\ x.t # "NaN"

Truthy(x) == x.t = "number" /\ x.n # 0

(***************************************************************************)
(* The component under study:                                              *)
(*   data:     { a, b }                                                     *)
(*   computed: { both () { return this.a && this.b } }                      *)
(* The getter reads b only when a is truthy, so the fields it reads differ  *)
(* from one run to the next.                                                *)
(***************************************************************************)
Fields == {"a", "b"}

ComputedKeys == <<"both">>

ComputedSet == {ComputedKeys[i] : i \in DOMAIN ComputedKeys}

\* number of $watch calls made on the instance
MaxUserWatchers == 2

\* Dep.target when no watcher is being evaluated (pushTarget() pushes undefined)
NoTarget == 0

\* the instance under study: const vm: Component = this
Vm == 1

VARIABLES
  data,         \* vm._data: field -> value
  subs,         \* the Dep of each data field: its subscribers (watcher ids)
  watchers,     \* every Watcher created so far, indexed by id
  targetStack,  \* the active-target stack; Dep.target is its last element
  queue,        \* the scheduler queue of watcher ids waiting for the flush
  instances,    \* the instances of the component tree, by creation order
  production,   \* process.env.NODE_ENV === 'production'
  created,      \* the instance the last new Vue(options) worked on
  shouldObserve \* the flag toggleObserving sets, read by observe

stateVars == <<data, subs, watchers, targetStack, queue>>

treeVars == <<instances, production>>

initVars == <<created, shouldObserve>>

vars == <<stateVars, treeVars, initVars>>

(***************************************************************************)
(* The operations below work on a record st of the whole state, so that a  *)
(* handler and every call it makes is one step:                            *)
(*   data, subs, w (the watchers), stack, queue as the variables; ret the  *)
(*   value of the last expression; plan what the user callbacks do when    *)
(*   they are called in this step: the callback of watcher plan.by calls   *)
(*   the unwatch function of watcher plan.un (none does when plan.by = 0), *)
(*   or, as plan.does says, reads vm.a or throws.                          *)
(* log is the trace of the step, for the properties to read: the hooks run *)
(* so far, in order, each an event [e, w, k, stack, v]:                    *)
(*   "touch"    the get accessor of data field k ran                       *)
(*   "read"     the accessor of computed property k (watcher w) ran        *)
(*   "get"      the getter of watcher w ran                                *)
(*   "got"      Watcher.get of watcher w returned value v                  *)
(*   "update"   the update hook of watcher w ran                           *)
(*   "cb"       the callback of watcher w was called with value v          *)
(*   "unwatch"  the unwatch function of watcher w was called               *)
(*   "warn"     warn() was called about computed property k                *)
(*   "error"    handleError was called with instance w and info k          *)
(* stack is the active-target stack at that moment.                        *)
(***************************************************************************)
Event(e, w, k, stack, v) == [e |-> e, w |-> w, k |-> k, stack |-> stack, v |-> v]

Log(st, event) == [st EXCEPT !.log = Append(@, event)]

\* Dep.target
DepTarget(st) == IF st.stack = <<>> THEN NoTarget ELSE st.stack[Len(st.stack)]

pushTarget(st, target) == [st EXCEPT !.stack = Append(@, target)]

popTarget(st) == [st EXCEPT !.stack = SubSeq(@, 1, Len(@) - 1)]

\* Watcher.addDep: record the Dep for this round, subscribe if it is new
addDep(st, wid, f) ==
  IF f \in st.w[wid].newDeps THEN st
  ELSE [st EXCEPT !.w[wid].newDeps = @ \cup {f},
                  !.subs[f] = IF f \in st.w[wid].deps THEN @ ELSE @ \cup {wid}]

\* Dep.depend
depDepend(st, f) ==
  IF DepTarget(st) # NoTarget THEN addDep(st, DepTarget(st), f) ELSE st

\* the get accessor defineReactive installs on a data field
reactiveGetter(st, f) ==
  [depDepend(Log(st, Event("touch", DepTarget(st), f, st.stack, st.data[f])), f)
     EXCEPT !.ret = st.data[f]]

\* proxyGetter: this[sourceKey][key]
proxyGetter(st, sourceKey, key) == reactiveGetter(st, key)

\* Watcher.cleanupDeps: drop the Deps not touched this round
cleanupDeps(st, wid) ==
  [st EXCEPT
     !.subs = [f \in Fields |->
                 IF f \in st.w[wid].deps \ st.w[wid].newDeps THEN st.subs[f] \ {wid}
                 ELSE st.subs[f]],
     !.w[wid].deps = st.w[wid].newDeps,
     !.w[wid].newDeps = {}]

RECURSIVE watcherGet(_, _)

\* this.value = <the value get() returned>
setValue(st, wid) == [st EXCEPT !.w[wid].value = st.ret]

\* Watcher.evaluate: this.value = this.get(); this.dirty = false
evaluate(st, wid) ==
  [setValue(watcherGet(st, wid), wid) EXCEPT !.w[wid].dirty = FALSE]

RECURSIVE dependAll(_, _)

dependAll(st, D) ==
  IF D = {} THEN st
  ELSE dependAll(depDepend(st, CHOOSE x \in D : TRUE), D \ {CHOOSE x \in D : TRUE})

\* Watcher.depend: every Dep this watcher holds is given to the active target
watcherDepend(st, wid) == dependAll(st, st.w[wid].deps)

\* this._computedWatchers[key]
ComputedWatcher(key) == CHOOSE i \in DOMAIN ComputedKeys : ComputedKeys[i] = key

\* if (watcher.dirty) watcher.evaluate()
evaluateIfDirty(st, wid) == IF st.w[wid].dirty THEN evaluate(st, wid) ELSE st

\* if (Dep.target) watcher.depend()
dependIfTarget(st, wid) ==
  IF DepTarget(st) # NoTarget THEN watcherDepend(st, wid) ELSE st

\* return watcher.value
returnValue(st, wid) == [st EXCEPT !.ret = st.w[wid].value]

\* the accessor of computed property key was entered
enterComputed(st, key) ==
  Log(st, Event("read", ComputedWatcher(key), key, st.stack, st.w[ComputedWatcher(key)].value))

\* computedGetter without the test of watcher.dirty: it evaluates on every read
computedGetter_everyRead(st, key) ==
  returnValue(
    dependIfTarget(evaluate(enterComputed(st, key), ComputedWatcher(key)),
                   ComputedWatcher(key)),
    ComputedWatcher(key))

\* computedGetter without the call of watcher.depend()
computedGetter_noDepend(st, key) ==
  returnValue(evaluateIfDirty(enterComputed(st, key), ComputedWatcher(key)),
              ComputedWatcher(key))

\* a computedGetter that calls the user's getter itself instead of
\* watcher.evaluate()
computedGetter_inline(st, key) ==
  returnValue(
    dependIfTarget(
      setValue(
        IF Truthy(st.data["a"])
        THEN proxyGetter(proxyGetter(enterComputed(st, key), "_data", "a"), "_data", "b")
        ELSE proxyGetter(enterComputed(st, key), "_data", "a"),
        ComputedWatcher(key)),
      ComputedWatcher(key)),
    ComputedWatcher(key))

\* the accessor createComputedGetter(key) returns
computedGetter(st, key) ==
  returnValue(
    dependIfTarget(evaluateIfDirty(enterComputed(st, key), ComputedWatcher(key)),
                   ComputedWatcher(key)),
    ComputedWatcher(key))

\* a set accessor that stores the assigned value as the cached one
computedSetter_storesValue(st, key, v, prod) ==
  [st EXCEPT !.w[ComputedWatcher(key)].value = v]

\* the set accessor defineComputed installs for a computed property without
\* a setter: noop, outside production a function that only warns
computedSetter(st, key, v, prod) ==
  IF prod THEN st
  ELSE Log(st, Event("warn", ComputedWatcher(key), key, st.stack,
                     st.w[ComputedWatcher(key)].value))

\* vm[key]: a proxied data field or a computed property
vmGet(st, key) ==
  IF key \in Fields THEN proxyGetter(st, "_data", key)
  ELSE IF key \in ComputedSet THEN computedGetter(st, key)
  ELSE [st EXCEPT !.ret = Undefined]

\* x && this[key], x being the value in st.ret
andGet(st, key) == IF Truthy(st.ret) THEN vmGet(st, key) ELSE st

\* computed.both: function () { return this.a && this.b }
bothGetter(st) == andGet(vmGet(st, "a"), "b")

\* the watcher's getter: the function itself, or the accessor of a path
callGetter(st, expr) ==
  IF expr.kind = "fn" THEN bothGetter(st) ELSE vmGet(st, expr.name)

\* Watcher.get returns
leaveGet(st, wid) ==
  Log(st, Event("got", wid, st.w[wid].expr.name, st.stack, st.ret))

\* Watcher.get: pushTarget(this); value = this.getter.call(vm, vm);
\* popTarget(); this.cleanupDeps(); return value
watcherGet(st, wid) ==
  leaveGet(
    cleanupDeps(
      popTarget(
        callGetter(
          pushTarget(
            Log(st, Event("get", wid, st.w[wid].expr.name, st.stack, st.w[wid].value)),
            wid),
          st.w[wid].expr)),
      wid),
    wid)

\* Watcher.teardown
teardown(st, wid) ==
  IF ~st.w[wid].active THEN st
  ELSE [st EXCEPT
          !.subs = [f \in Fields |->
                      IF f \in st.w[wid].deps THEN st.subs[f] \ {wid}
                      ELSE st.subs[f]],
          !.w[wid].active = FALSE]

\* the unwatch function of watcher wid was called
enterUnwatch(st, wid) ==
  [Log(st, Event("unwatch", wid, st.w[wid].expr.name, st.stack, st.w[wid].value))
     EXCEPT !.w[wid].unwatched = TRUE]

\* an unwatchFn that returns without calling watcher.teardown()
unwatchFn_noTeardown(st, wid) == enterUnwatch(st, wid)

\* the closure $watch returns; that it was called is kept with the watcher
unwatchFn(st, wid) == teardown(enterUnwatch(st, wid), wid)

\* the body of the user's callback: it may call an unwatch function it
\* holds, or read vm.a
userCallback(st, wid) ==
  IF st.plan.by # wid THEN st
  ELSE IF st.plan.does = "read" THEN [vmGet(st, "a") EXCEPT !.ret = st.ret]
  ELSE IF st.plan.un \in DOMAIN st.w THEN unwatchFn(st, st.plan.un)
  ELSE st

\* the user's callback throws when it is called
cbThrows(st, wid) == st.plan.by = wid /\ st.plan.does = "throw"

\* handleError(err, vm, info)
handleError(st, vm, info) == Log(st, Event("error", vm, info, st.stack, Undefined))

\* the callback is called
enterCb(st, wid, value) ==
  Log(st, Event("cb", wid, st.w[wid].expr.name, st.stack, value))

\* cb.call(vm, value, oldValue) in the try block of Watcher.run and of
\* invokeWithErrorHandling: what the callback throws goes to handleError
invokeCb(st, wid, value, oldValue) ==
  IF cbThrows(st, wid)
  THEN handleError(enterCb(st, wid, value), Vm, "callback")
  ELSE userCallback(enterCb(st, wid, value), wid)

\* Watcher.run after value = this.get(): a changed value (NaN never equals
\* itself) is stored and given to the callback
runValue(st, wid, oldValue) ==
  IF ~StrictEq(st.ret, oldValue)
  THEN invokeCb(setValue(st, wid), wid, st.ret, oldValue)
  ELSE st

\* Watcher.run
run(st, wid) ==
  IF ~st.w[wid].active THEN st
  ELSE runValue(watcherGet(st, wid), wid, st.w[wid].value)

\* queueWatcher: a watcher is in the queue at most once
queueWatcher(st, wid) ==
  IF \E i \in DOMAIN st.queue : st.queue[i] = wid THEN st
  ELSE [st EXCEPT !.queue = Append(@, wid)]

\* the body of Watcher.update
updateBody(st, wid) ==
  IF ~st.w[wid].active THEN st
  ELSE IF st.w[wid].lazy THEN [st EXCEPT !.w[wid].dirty = TRUE]
  ELSE IF st.w[wid].sync THEN run(st, wid)
  ELSE queueWatcher(st, wid)

\* Watcher.update
update(st, wid) ==
  updateBody(
    Log(st, Event("update", wid, st.w[wid].expr.name, st.stack, st.w[wid].value)),
    wid)

RECURSIVE SortById(_)

SortById(S) ==
  IF S = {} THEN <<>>
  ELSE <<CHOOSE x \in S : \A y \in S : x <= y>>
         \o SortById(S \ {CHOOSE x \in S : \A y \in S : x <= y})

RECURSIVE updateEach(_, _)

updateEach(st, list) ==
  IF list = <<>> THEN st
  ELSE updateEach(update(st, Head(list)), Tail(list))

\* Dep.notify: a snapshot of the subscribers, by id ascending
notify(st, f) == updateEach(st, SortById(st.subs[f]))

\* the set accessor defineReactive installs on a data field
reactiveSetter(st, f, newVal) ==
  IF StrictEq(newVal, st.data[f])
       \/ (~StrictEq(newVal, newVal) /\ ~StrictEq(st.data[f], st.data[f]))
  THEN st
  ELSE notify([st EXCEPT !.data[f] = newVal], f)

\* a proxy setter that writes a key other than the one it was defined for
proxySetter_otherKey(st, sourceKey, key, val) ==
  reactiveSetter(st, CHOOSE g \in Fields : g # key, val)

\* proxySetter: this[sourceKey][key] = val
proxySetter(st, sourceKey, key, val) == reactiveSetter(st, key, val)

RECURSIVE runEach(_, _)

runEach(st, list) ==
  IF list = <<>> THEN st
  ELSE runEach(run(st, Head(list)), Tail(list))

\* a flush that runs the watchers in the order they were queued
flushSchedulerQueue_unsorted(st) ==
  [runEach(st, st.queue) EXCEPT !.queue = <<>>]

\* flushSchedulerQueue: the queued watchers run by id ascending, then the
\* queue is reset
flushSchedulerQueue(st) ==
  [runEach(st, SortById({st.queue[i] : i \in DOMAIN st.queue})) EXCEPT !.queue = <<>>]

\* the fields of a Watcher object as its constructor sets them
watcherRecord(expOrFn, options) ==
  [lazy |-> options.lazy, user |-> options.user, sync |-> options.sync,
   active |-> TRUE, unwatched |-> FALSE, dirty |-> options.lazy,
   value |-> Undefined, deps |-> {}, newDeps |-> {}, expr |-> expOrFn]

\* the end of the constructor: this.value = this.lazy ? undefined : this.get()
firstValue(st, wid) ==
  IF st.w[wid].lazy THEN [st EXCEPT !.ret = Undefined]
  ELSE setValue(watcherGet(st, wid), wid)

\* new Watcher(vm, expOrFn, cb, options)
newWatcher(st, expOrFn, cb, options) ==
  firstValue([st EXCEPT !.w = Append(@, watcherRecord(expOrFn, options))],
             Len(st.w) + 1)

\* computedWatcherOptions without lazy: true
computedWatcherOptions_notLazy == [lazy |-> FALSE, user |-> FALSE, sync |-> FALSE]

computedWatcherOptions == [lazy |-> TRUE, user |-> FALSE, sync |-> FALSE]

RECURSIVE initComputedFrom(_, _)

initComputedFrom(st, i) ==
  IF i > Len(ComputedKeys) THEN st
  ELSE initComputedFrom(
         newWatcher(st, [kind |-> "fn", name |-> ComputedKeys[i]], "noop",
                    computedWatcherOptions),
         i + 1)

\* initComputed: one lazy watcher per computed key
initComputed(st) == initComputedFrom(st, 1)

isPlainObject(x) == x.type = "object"

(***************************************************************************)
(* The data option.  A data object is [type, keys]: a plain object with    *)
(* the given keys, or a value of another type (keys empty).  A data        *)
(* function is [type |-> "function", reads, returns]: it reads vm.a first  *)
(* when reads is set, then returns the value or throws.                    *)
(***************************************************************************)
PlainObject(keys) == [type |-> "object", keys |-> keys]

Thrown == [type |-> "thrown", keys |-> {}]

\* data.call(vm, vm)
callData(st, fn) ==
  IF fn.reads THEN [vmGet(st, "a") EXCEPT !.ret = fn.returns]
  ELSE [st EXCEPT !.ret = fn.returns]

\* catch (e) { handleError(e, vm, `data()`); return {} }
catchData(st, vm) ==
  IF st.ret = Thrown
  THEN [handleError(st, vm, "data()") EXCEPT !.ret = PlainObject({})]
  ELSE st

\* a getData without a catch clause: what the data function throws leaves it
getData_noCatch(st, fn, vm) == popTarget(callData(pushTarget(st, NoTarget), fn))

\* getData: pushTarget(); try { return data.call(vm, vm) } catch ...
\* finally { popTarget() }
getData(st, fn, vm) ==
  popTarget(catchData(callData(pushTarget(st, NoTarget), fn), vm))

RECURSIVE watch(_, _, _, _)

\* createWatcher: a handler given as an object carries the options
createWatcher(st, expOrFn, handler, options) ==
  IF isPlainObject(handler)
  THEN watch(st, expOrFn, handler.handler, handler.options)
  ELSE watch(st, expOrFn, handler, options)

\* invokeWithErrorHandling(cb, vm, [watcher.value], vm, info)
invokeWithErrorHandling(st, wid, value) == invokeCb(st, wid, value, Undefined)

\* the callback called as it is, not through invokeWithErrorHandling: what it
\* throws leaves $watch before popTarget()
callImmediate_unguarded(st, immediate) ==
  IF ~immediate THEN st
  ELSE IF cbThrows(st, Len(st.w))
  THEN enterCb(pushTarget(st, NoTarget), Len(st.w), st.w[Len(st.w)].value)
  ELSE popTarget(invokeWithErrorHandling(pushTarget(st, NoTarget), Len(st.w),
                                         st.w[Len(st.w)].value))

\* the callback called without pushTarget() and popTarget() around it
callImmediate_noPush(st, immediate) ==
  IF immediate
  THEN invokeWithErrorHandling(st, Len(st.w), st.w[Len(st.w)].value)
  ELSE st

\* if (options.immediate): the callback is called at once with the value of
\* the watcher just created (the last of st.w), under no target
callImmediate(st, immediate) ==
  IF immediate
  THEN popTarget(invokeWithErrorHandling(pushTarget(st, NoTarget), Len(st.w),
                                         st.w[Len(st.w)].value))
  ELSE st

\* Vue.prototype.$watch; the unwatch function it returns is unwatchFn of the
\* watcher created
watch(st, expOrFn, cb, options) ==
  IF isPlainObject(cb) THEN createWatcher(st, expOrFn, cb, options)
  ELSE callImmediate(
         newWatcher(st, expOrFn, cb,
                    [lazy |-> FALSE, user |-> TRUE, sync |-> options.sync]),
         options.immediate)


(***************************************************************************)
(* provide / inject over a tree of instances.  An instance is a record     *)
(*   parent   : $parent, the id of the owner (0: a root)                   *)
(*   provided : _provided, [truthy, map]; truthy is FALSE while _provided  *)
(*              is unset or was given a falsy value                        *)
(*   inject   : $options.inject                                            *)
(*   bound    : the injected keys initInjections installed, key -> value   *)
(*   warned   : the keys warn('Injection "key" not found') was called for  *)
(*   hooks    : the steps of _init run on the instance so far, in order    *)
(* Provided and injected values are records [s, by]: a string, and for a   *)
(* value made by a default factory the id of the instance it was called on.*)
(***************************************************************************)
Value(str) == [s |-> str, by |-> 0]

UndefinedValue == Value("undefined")

\* the injection source key the instances provide
ThemeKey == "theme"

EmptyObject == [k \in {} |-> UndefinedValue]

NoProvided == [truthy |-> FALSE, map |-> EmptyObject]

hasOwn(obj, key) == key \in DOMAIN obj

\* a default given as a function: () => ({ madeBy: this })
callFactory(receiver) == [s |-> "made", by |-> receiver]

RECURSIVE findSource_topmost(_, _, _)

\* a walk that keeps going after a match: the provider nearest to the root
findSource_topmost(insts, source, provideKey) ==
  IF source = 0 THEN 0
  ELSE LET up == findSource_topmost(insts, insts[source].parent, provideKey)
       IN  IF up # 0 THEN up
           ELSE IF insts[source].provided.truthy /\ hasOwn(insts[source].provided.map, provideKey)
                THEN source
                ELSE 0

RECURSIVE findSource(_, _, _)

\* the walk up the $parent chain: the instance it stops at, 0 when the chain
\* is exhausted
findSource(insts, source, provideKey) ==
  IF source = 0 THEN 0
  ELSE IF insts[source].provided.truthy /\ hasOwn(insts[source].provided.map, provideKey)
       THEN source
       ELSE findSource(insts, insts[source].parent, provideKey)

\* a fallback that calls the factory without a receiver: provideDefault()
resolveDefault_noReceiver(r, vm, key, entry) ==
  IF entry.hasDefault
  THEN LET provideDefault == entry.default
       IN  [r EXCEPT !.result =
              [k \in DOMAIN r.result \cup {key} |->
                 IF k = key
                 THEN IF provideDefault.type = "function" THEN callFactory(0)
                      ELSE provideDefault.value
                 ELSE r.result[k]]]
  ELSE IF ~production THEN [r EXCEPT !.warned = @ \cup {key}]
  ELSE r

\* a fallback that sets result[key] = undefined when there is no default
resolveDefault_bindsUndefined(r, vm, key, entry) ==
  LET value == IF ~entry.hasDefault THEN UndefinedValue
               ELSE IF entry.default.type = "function" THEN callFactory(vm)
               ELSE entry.default.value
      r1 == [r EXCEPT !.result =
               [k \in DOMAIN r.result \cup {key} |-> IF k = key THEN value ELSE r.result[k]]]
  IN  IF ~entry.hasDefault /\ ~production THEN [r1 EXCEPT !.warned = @ \cup {key}] ELSE r1

\* the fallback when no source was found: result and warning for one key
resolveDefault(r, vm, key, entry) ==
  IF entry.hasDefault
  THEN LET provideDefault == entry.default
       IN  [r EXCEPT !.result =
              [k \in DOMAIN r.result \cup {key} |->
                 IF k = key
                 THEN IF provideDefault.type = "function" THEN callFactory(vm)
                      ELSE provideDefault.value
                 ELSE r.result[k]]]
  ELSE IF ~production THEN [r EXCEPT !.warned = @ \cup {key}]
  ELSE r

\* one round of the loop over the inject keys
resolveKey(insts, vm, inject, key, r) ==
  IF key = "__ob__" THEN r
  ELSE LET provideKey == inject[key].from
           source == findSource(insts, vm, provideKey)
       IN  IF source # 0
           THEN [r EXCEPT !.result =
                   [k \in DOMAIN r.result \cup {key} |->
                      IF k = key THEN insts[source].provided.map[provideKey]
                      ELSE r.result[k]]]
           ELSE resolveDefault(r, vm, key, inject[key])

RECURSIVE resolveKeys(_, _, _, _, _)

resolveKeys(insts, vm, inject, keys, r) ==
  IF keys = {} THEN r
  ELSE LET key == CHOOSE k \in keys : TRUE
       IN  resolveKeys(insts, vm, inject, keys \ {key},
                       resolveKey(insts, vm, inject, key, r))

\* resolveInject(inject, vm): [defined, result, warned]; defined is FALSE
\* when there is no inject option (the function returns undefined)
resolveInject(insts, vm, inject) ==
  IF inject.given
  THEN resolveKeys(insts, vm, inject.entries, DOMAIN inject.entries,
                   [defined |-> TRUE, result |-> EmptyObject, warned |-> {}])
  ELSE [defined |-> FALSE, result |-> EmptyObject, warned |-> {}]

\* initInjections: every key of the result becomes a reactive property of vm
initInjections(insts, vm, inject) ==
  LET r == resolveInject(insts, vm, inject)
  IN  IF r.defined
      THEN [insts EXCEPT ![vm].bound = r.result, ![vm].warned = r.warned,
                         ![vm].hooks = Append(@, "initInjections")]
      ELSE [insts EXCEPT ![vm].hooks = Append(@, "initInjections")]

\* initProvide
initProvide(insts, vm, provide) ==
  IF provide.given
  THEN [insts EXCEPT ![vm].provided =
          IF provide.type = "function" THEN provide.returns ELSE provide.object,
                     ![vm].hooks = Append(@, "initProvide")]
  ELSE [insts EXCEPT ![vm].hooks = Append(@, "initProvide")]

\* initState, for what provide / inject see of it: it sets neither _provided
\* nor the injected keys
initStateOf(insts, vm) == [insts EXCEPT ![vm].hooks = Append(@, "initState")]

\* the instance as _init links it to its owner, before any of the steps
linkedInstance(parent, options) ==
  [parent |-> parent, provided |-> NoProvided, inject |-> options.inject,
   bound |-> EmptyObject, warned |-> {}, hooks |-> <<>>]

\* an _init that evaluates the instance's provide before it resolves the
\* injections
vueInit_provideFirst(insts, parent, options) ==
  initInjections(
    initStateOf(
      initProvide(Append(insts, linkedInstance(parent, options)),
                  Len(insts) + 1, options.provide),
      Len(insts) + 1),
    Len(insts) + 1, options.inject)

\* Vue.prototype._init, for what provide / inject see of it: the instance is
\* linked to its owner, then initInjections, initState, initProvide
vueInit(insts, parent, options) ==
  initProvide(
    initStateOf(
      initInjections(Append(insts, linkedInstance(parent, options)),
                     Len(insts) + 1, options.inject),
      Len(insts) + 1),
    Len(insts) + 1, options.provide)

(***************************************************************************)
(* The state machine of one instance.                                      *)
(***************************************************************************)
NoPlan == [by |-> 0, un |-> 0, does |-> "unwatch"]

\* an object without keys, and a value not yet assigned
NoKeys == [k \in {} |-> ""]

Unset == [type |-> "unset", keys |-> {}]

\* no instance has been constructed with new Vue yet
NoInstance ==
  [options |-> [isRoot |-> TRUE], keys |-> NoKeys, props |-> {}, data |-> Unset,
   observed |-> <<>>, errors |-> <<>>, log |-> <<>>, thrown |-> FALSE]

\* the current state as a record, for a step in which the callbacks follow p
CurP(p) ==
  [data |-> data, subs |-> subs, w |-> watchers, stack |-> targetStack,
   queue |-> queue, log |-> <<>>, ret |-> Undefined, plan |-> p]

Cur == CurP(NoPlan)

Commit(st) ==
  /\ UNCHANGED <<treeVars, initVars>>
  /\ data' = st.data
  /\ subs' = st.subs
  /\ watchers' = st.w
  /\ targetStack' = st.stack
  /\ queue' = st.queue

\* the instance after initState: data observed, computed watchers created
StateIs(st) ==
  /\ data = st.data
  /\ subs = st.subs
  /\ watchers = st.w
  /\ targetStack = st.stack
  /\ queue = st.queue

StateAfterInit(d) ==
  StateIs(initComputed([data |-> d, subs |-> [f \in Fields |-> {}], w |-> <<>>,
                        stack |-> <<>>, queue |-> <<>>, log |-> <<>>,
                        ret |-> Undefined, plan |-> NoPlan]))

InitState == \E d \in [Fields -> Vals] : StateAfterInit(d)

UserWatchers == {i \in DOMAIN watchers : watchers[i].user}

ActiveUserWatchers == {i \in UserWatchers : watchers[i].active}

\* what the callbacks may do in a step that writes field f: the callbacks
\* called are those of sync watchers subscribed to f; one of them unwatches
\* a watcher that is still active (on a watcher torn down already teardown
\* does nothing)
WritePlans(f) ==
  {NoPlan} \cup {[by |-> b, un |-> u, does |-> "unwatch"] :
                   b \in {i \in ActiveUserWatchers : watchers[i].sync /\ i \in subs[f]},
                   u \in ActiveUserWatchers}

\* in a flush the callbacks called are those of the queued watchers
FlushPlans ==
  {NoPlan} \cup {[by |-> b, un |-> u, does |-> "unwatch"] :
                   b \in {i \in ActiveUserWatchers : \E n \in DOMAIN queue : queue[n] = i},
                   u \in ActiveUserWatchers}

\* vm._data.f = v
setData(f, v, p) == reactiveSetter(CurP(p), f, v)

SetData(f, v, p) == Commit(setData(f, v, p))

\* vm.f = v
setProxy(f, v, p) == proxySetter(CurP(p), "_data", f, v)

SetProxy(f, v, p) == Commit(setProxy(f, v, p))

\* vm.c read by code that is not a watcher
getComputed(c) == computedGetter(Cur, c)

GetComputed(c) == Commit(getComputed(c))

WatchExprs == {[kind |-> "path", name |-> k] : k \in {"a", "both"}}

WatchOptions == [sync : BOOLEAN, immediate : BOOLEAN]

CbFunction == [type |-> "function"]

CbObjects == {[type |-> "object", handler |-> CbFunction, options |-> o] : o \in WatchOptions}

\* the calls of $watch: (expOrFn, cb, options), and (expOrFn, { handler,
\* ...options }, other) with other the opposite of the options in the object
WatchCalls ==
  {[cb |-> CbFunction, options |-> o] : o \in WatchOptions}
    \cup {[cb |-> c, options |-> [sync |-> ~c.options.sync,
                                  immediate |-> ~c.options.immediate]] : c \in CbObjects}

\* a callback called at once (immediate) holds the unwatch functions of the
\* earlier watchers only
WatchPlans ==
  {NoPlan} \cup [by : {Len(watchers) + 1}, un : ActiveUserWatchers, does : {"unwatch"}]

\* a callback called at once that reads vm.a, or throws
ImmediatePlans == [by : {Len(watchers) + 1}, un : {0}, does : {"read", "throw"}]

\* unwatch = vm.$watch(expOrFn, cb, options)
doWatch(expOrFn, cb, options, p) == watch(CurP(p), expOrFn, cb, options)

Watch(expOrFn, cb, options, p) ==
  /\ Cardinality(UserWatchers) < MaxUserWatchers
  /\ Commit(doWatch(expOrFn, cb, options, p))

\* unwatch()
doUnwatch(wid) == unwatchFn(Cur, wid)

Unwatch(wid) == Commit(doUnwatch(wid))

\* the microtask the scheduler registered when the queue got its first watcher
doFlush(p) == flushSchedulerQueue(CurP(p))

Flush(p) ==
  /\ queue # <<>>
  /\ Commit(doFlush(p))

Next ==
  \/ \E f \in Fields, v \in Vals : \E p \in WritePlans(f) : SetData(f, v, p)
  \/ \E f \in Fields, v \in Vals : \E p \in WritePlans(f) : SetProxy(f, v, p)
  \/ \E c \in ComputedSet : GetComputed(c)
  \/ \E e \in WatchExprs, call \in WatchCalls, p \in WatchPlans :
       Watch(e, call.cb, call.options, p)
  \/ \E wid \in UserWatchers : Unwatch(wid)
  \/ \E p \in FlushPlans : Flush(p)

\* vm.both = v
setComputed(c, v, prod) == computedSetter(Cur, c, v, prod)

SetComputed(c, v) == Commit(setComputed(c, v, production))

NextAssign ==
  \/ Next
  \/ \E c \in ComputedSet, v \in Vals : SetComputed(c, v)
  \/ \E e \in WatchExprs, call \in WatchCalls, p \in ImmediatePlans :
       Watch(e, call.cb, call.options, p)

\* no other instance exists; the instance runs in development mode
Init ==
  /\ InitState
  /\ instances = <<>>
  /\ production = FALSE
  /\ created = NoInstance
  /\ shouldObserve = TRUE

Spec == Init /\ [][Next]_vars

\* the same instance, its computed property assigned to as well, and with
\* immediate callbacks that read or throw
SpecAssign == Init /\ [][NextAssign]_vars

(***************************************************************************)
(* The state machine of the component tree.                                *)
(***************************************************************************)
\* number of instances created
MaxInstances == 3

Object(S, v) == [k \in S |-> v]

ProvidedValues == {Value("dark"), Value("light"), UndefinedValue}

\* the objects a provide option gives: {}, { theme: v }
ProvidedObjects ==
  {[truthy |-> TRUE, map |-> EmptyObject]}
    \cup {[truthy |-> TRUE, map |-> Object({ThemeKey}, v)] : v \in ProvidedValues}

NoProvide == [given |-> FALSE, type |-> "object", object |-> NoProvided, returns |-> NoProvided]

\* provide: absent, an object, or a function returning an object or nothing
ProvideOptions ==
  {NoProvide}
    \cup {[given |-> TRUE, type |-> "object", object |-> o, returns |-> NoProvided] :
            o \in ProvidedObjects}
    \cup {[given |-> TRUE, type |-> "function", object |-> NoProvided, returns |-> o] :
            o \in ProvidedObjects \cup {NoProvided}}

NoDefault == [type |-> "value", value |-> UndefinedValue]

\* an inject entry { from, default? }: the default is absent, a value
\* (undefined included) or a factory
InjectEntries ==
  {[from |-> ThemeKey, hasDefault |-> FALSE, default |-> NoDefault]}
    \cup {[from |-> ThemeKey, hasDefault |-> TRUE, default |-> [type |-> "value", value |-> v]] :
            v \in {Value("fallback"), UndefinedValue}}
    \cup {[from |-> ThemeKey, hasDefault |-> TRUE,
            default |-> [type |-> "function", value |-> UndefinedValue]]}

NoInject == [given |-> FALSE, entries |-> EmptyObject]

\* inject: absent, { theme }, { color: { from: 'theme' } }, both keys, and
\* an observed options object (which has the key __ob__)
InjectOptions ==
  {NoInject}
    \cup {[given |-> TRUE, entries |-> Object({k}, e)] :
            k \in {"theme", "color"}, e \in InjectEntries}
    \cup {[given |-> TRUE, entries |-> [k \in {"theme", "color"} |-> IF k = "theme" THEN e1 ELSE e2]] :
            e1 \in InjectEntries, e2 \in InjectEntries}
    \cup {[given |-> TRUE, entries |-> Object({"__ob__", "theme"}, e)] : e \in InjectEntries}

\* the inject options the instances of the tree are created with:
\* { theme } and { color: { from: 'theme', default: () => ... } }
TreeInjectOptions ==
  {[given |-> TRUE, entries |-> Object({"theme"}, e)] :
     e \in {x \in InjectEntries : ~x.hasDefault}}
    \cup {[given |-> TRUE, entries |-> Object({"color"}, e)] :
            e \in {x \in InjectEntries : x.hasDefault /\ x.default.type = "function"}}

\* new Vue({ parent, provide, inject }): a component nested in the last one
\* created (resolveInject follows $parent only, so one path from the root
\* down is all it can see)
NewVue(provide, inject) ==
  /\ Len(instances) < MaxInstances
  /\ instances' = vueInit(instances, Len(instances),
                          [provide |-> provide, inject |-> inject])
  /\ UNCHANGED <<production, stateVars, initVars>>

NextTree ==
  \E provide \in ProvideOptions, inject \in TreeInjectOptions : NewVue(provide, inject)

InitTree ==
  /\ StateAfterInit([f \in Fields |-> Num(1)])
  /\ instances = <<>>
  /\ production \in BOOLEAN
  /\ created = NoInstance
  /\ shouldObserve = TRUE

SpecTree == InitTree /\ [][NextTree]_vars

(***************************************************************************)
(* The construction of an instance: initInjections and initState, for the  *)
(* keys they define on the instance and the flag they toggle.  The         *)
(* instance under construction is a record                                 *)
(*   options  : $options (isRoot: it has no $parent)                       *)
(*   keys     : the properties defined on the instance, key -> where the   *)
(*              accessor leads: "_props", "_data", "injected"              *)
(*   props    : the keys of vm._props                                      *)
(*   data     : vm._data                                                   *)
(*   observed : the calls observe(value, asRootData), in order             *)
(*   errors   : the calls handleError(err, vm, info), in order             *)
(*   log      : the steps taken, each [e, k, observing] with the value of  *)
(*              the flag at that moment                                    *)
(*   thrown   : an exception is on its way out of new Vue                  *)
(*   observing: the flag                                                   *)
(***************************************************************************)
\* the instance at the start of _init, with the flag as it stands
newInstance(options, flag) ==
  [options |-> options, keys |-> NoKeys, props |-> {}, data |-> Unset,
   observed |-> <<>>, errors |-> <<>>, log |-> <<>>, thrown |-> FALSE,
   observing |-> flag]

note(s, e, k) ==
  [s EXCEPT !.log = Append(@, [e |-> e, k |-> k, observing |-> s.observing])]

toggleObserving(s, value) == [s EXCEPT !.observing = value]

\* Object.defineProperty(vm, key, ...): the accessor of key now leads to source
defineProperty(s, key, source) ==
  [s EXCEPT !.keys = [k \in DOMAIN s.keys \cup {key} |->
                        IF k = key THEN source ELSE s.keys[k]]]

\* proxy(vm, sourceKey, key)
proxy(s, sourceKey, key) == defineProperty(note(s, "proxy", key), key, sourceKey)

\* observe(value, asRootData): an Observer is made only while the flag is set
observe(s, value, asRootData) ==
  [s EXCEPT !.observed = Append(@, [value |-> value, asRootData |-> asRootData,
                                    observing |-> s.observing])]

RECURSIVE defineInjected(_, _, _)

\* Object.keys(result).forEach(key => defineReactive(vm, key, result[key]))
defineInjected(s, list, i) ==
  IF i > Len(list) THEN s
  ELSE defineInjected(
         defineProperty(note(s, "defineReactive", list[i]), list[i], "injected"),
         list, i + 1)

\* initInjections, for the flag and the keys: resolveInject may throw (a
\* default factory that throws) before the flag is touched
installInjections(s, inject) ==
  IF ~inject.given THEN s
  ELSE IF inject.throws THEN [note(s, "resolveInject", "") EXCEPT !.thrown = TRUE]
  ELSE toggleObserving(
         defineInjected(toggleObserving(note(s, "resolveInject", ""), FALSE),
                        inject.keys, 1),
         TRUE)

\* if (!(key in vm)) proxy(vm, `_props`, key)
proxyProp(s, key) == IF key \in DOMAIN s.keys THEN s ELSE proxy(s, "_props", key)

\* defineReactive(props, key, value)
defineProp(s, key) == [note(s, "defineReactive", key) EXCEPT !.props = @ \cup {key}]

\* validateProp(key, propsOptions, propsData, vm): it calls the validator and
\* the default factory of the prop, which may throw
validateProp(s, prop) ==
  IF prop.throws THEN [note(s, "validateProp", prop.key) EXCEPT !.thrown = TRUE]
  ELSE note(s, "validateProp", prop.key)

RECURSIVE propsLoop(_, _, _)

\* for (const key in propsOptions) ...
propsLoop(s, list, i) ==
  IF i > Len(list) \/ s.thrown THEN s
  ELSE propsLoop(
         IF list[i].throws THEN validateProp(s, list[i])
         ELSE proxyProp(defineProp(validateProp(s, list[i]), list[i].key), list[i].key),
         list, i + 1)

\* the last statement of initProps, reached unless an exception left the loop
endProps(s) == IF s.thrown THEN s ELSE toggleObserving(s, TRUE)

\* initProps
initProps(s, propsOptions) ==
  endProps(
    propsLoop(IF s.options.isRoot THEN note(s, "initProps", "")
              ELSE toggleObserving(note(s, "initProps", ""), FALSE),
              propsOptions.list, 1))

\* the keys the props option declares
DeclaredProps(propsOptions) ==
  {propsOptions.list[i].key : i \in DOMAIN propsOptions.list}

\* isReserved(key): the key starts with $ or _
ReservedKeys == {"_c", "$d"}

isReserved(key) == key \in ReservedKeys

RECURSIVE proxyData(_, _, _)

\* the loop of initData over the keys of data
proxyData(s, keys, declared) ==
  IF keys = {} THEN s
  ELSE proxyData(
         IF (CHOOSE k \in keys : TRUE) \in declared
         THEN (IF production THEN s ELSE note(s, "warn", CHOOSE k \in keys : TRUE))
         ELSE IF ~isReserved(CHOOSE k \in keys : TRUE)
         THEN proxy(s, "_data", CHOOSE k \in keys : TRUE)
         ELSE s,
         keys \ {CHOOSE k \in keys : TRUE}, declared)

\* the errors getData gave to handleError
handled(s, log) ==
  [s EXCEPT !.errors = @ \o [i \in 1..Len(SelectSeq(log, LAMBDA ev : ev.e = "error")) |->
                               [vm |-> SelectSeq(log, LAMBDA ev : ev.e = "error")[i].w,
                                info |-> SelectSeq(log, LAMBDA ev : ev.e = "error")[i].k]]]

\* data = vm._data = typeof data === 'function' ? getData(data, vm) : data || {}
\* what getData lets through leaves initData
setData_(s, got) ==
  IF got.ret = Thrown THEN [handled(s, got.log) EXCEPT !.thrown = TRUE]
  ELSE [handled(s, got.log) EXCEPT !.data = got.ret]

assignData(s, dataOption) ==
  IF dataOption.type = "function" THEN setData_(s, getData(Cur, dataOption, Vm))
  ELSE [s EXCEPT !.data = [type |-> dataOption.type, keys |-> dataOption.keys]]

\* if (!isPlainObject(data)) { data = {}; warn(...) }: nothing but the warning
\* happens to the instance, the local variable alone is given the empty
\* object
localData(s) ==
  IF isPlainObject(s.data) THEN s
  ELSE IF production THEN s ELSE note(s, "warn", "data")

\* the value of the local variable data after that statement
LocalData(s) == IF isPlainObject(s.data) THEN s.data ELSE PlainObject({})

\* the rest of initData: the keys are proxied, observe(data, true)
proxyAndObserve(s, declared) ==
  IF s.thrown THEN s
  ELSE observe(proxyData(s, LocalData(s).keys, declared), LocalData(s), TRUE)

\* initData
initData(s, declared) ==
  proxyAndObserve(localData(assignData(note(s, "initData", ""), s.options.data)),
                  declared)

\* if (opts.data) initData(vm) else observe(vm._data = {}, true)
dataOrEmpty(s) ==
  IF s.thrown THEN s
  ELSE IF s.options.data.given
  THEN initData(s, IF s.options.props.given THEN DeclaredProps(s.options.props) ELSE {})
  ELSE observe([s EXCEPT !.data = PlainObject({})], PlainObject({}), TRUE)

\* if (opts.computed) initComputed(vm, opts.computed), and the same for watch
thenInit(s, e) == IF s.thrown THEN s ELSE note(s, e, "")

\* initState
initState(s) ==
  IF s.thrown THEN s
  ELSE thenInit(
         thenInit(
           dataOrEmpty(IF s.options.props.given THEN initProps(s, s.options.props) ELSE s),
           "initComputed"),
         "initWatch")

\* new Vue(options), from initInjections to initState
construct(options, flag) ==
  initState(installInjections(newInstance(options, flag), options.inject))

(***************************************************************************)
(* The options the instances are constructed with.                         *)
(***************************************************************************)
\* inject: absent, a key of its own, the key a, or a default factory that throws
InjectedOptions ==
  {[given |-> FALSE, throws |-> FALSE, keys |-> <<>>],
   [given |-> TRUE, throws |-> FALSE, keys |-> <<"theme">>],
   [given |-> TRUE, throws |-> FALSE, keys |-> <<"a">>],
   [given |-> TRUE, throws |-> TRUE, keys |-> <<"theme">>]}

\* a prop: its validator or default factory throws, or not
PropsOf(key) == [key : {key}, throws : BOOLEAN]

\* props: absent, one of the keys a and p, or both
PropsOptions ==
  {[given |-> FALSE, list |-> <<>>]}
    \cup {[given |-> TRUE, list |-> <<x>>] : x \in PropsOf("a") \cup PropsOf("p")}
    \cup {[given |-> TRUE, list |-> <<x, y>>] : x \in PropsOf("a"), y \in PropsOf("p")}

DataKeySets == {{"a", "b"}, {"a", "_c", "$d"}}

\* data: absent, a plain object, an array, or a function that returns a
\* plain object, returns a number, or throws, the last after reading vm.a or
\* not
DataOptions ==
  {[given |-> FALSE, type |-> "undefined", keys |-> {}, reads |-> FALSE, returns |-> Unset]}
    \cup {[given |-> TRUE, type |-> "object", keys |-> K, reads |-> FALSE, returns |-> Unset] :
            K \in DataKeySets}
    \cup {[given |-> TRUE, type |-> "array", keys |-> {}, reads |-> FALSE, returns |-> Unset]}
    \cup {[given |-> TRUE, type |-> "function", keys |-> {}, reads |-> FALSE, returns |-> v] :
            v \in {PlainObject(K) : K \in DataKeySets} \cup {[type |-> "number", keys |-> {}]}}
    \cup {[given |-> TRUE, type |-> "function", keys |-> {}, reads |-> r, returns |-> Thrown] :
            r \in BOOLEAN}

VueOptions ==
  [isRoot : BOOLEAN, inject : InjectedOptions, props : PropsOptions, data : DataOptions]

\* the fields of the instance the state keeps
Instance(s) ==
  [options |-> s.options, keys |-> s.keys, props |-> s.props, data |-> s.data,
   observed |-> s.observed, errors |-> s.errors, log |-> s.log, thrown |-> s.thrown]

\* new Vue(options)
Construct(options) ==
  /\ created' = Instance(construct(options, shouldObserve))
  /\ shouldObserve' = construct(options, shouldObserve).observing
  /\ UNCHANGED <<stateVars, treeVars>>

NextInit == \E options \in VueOptions : Construct(options)

InitInit ==
  /\ StateAfterInit([f \in Fields |-> Num(1)])
  /\ instances = <<>>
  /\ production \in BOOLEAN
  /\ created = NoInstance
  /\ shouldObserve = TRUE

SpecInit == InitInit /\ [][NextInit]_vars

(***************************************************************************)
(* What the operations do, read from the trace of each step.               *)
(***************************************************************************)
\* the results of the operations that can be made in the current state, but
\* for those whose callbacks follow a plan of X
\* the writes vm.f = v; the proxy setter makes the write vm._data.f = v
WriteOutcomes(X) ==
  UNION {{setProxy(f, v, p) : v \in Vals, p \in WritePlans(f) \ X} : f \in Fields}

WatchOutcomes(X) ==
  IF Cardinality(UserWatchers) < MaxUserWatchers
  THEN {doWatch(e, call.cb, call.options, p) :
          e \in WatchExprs, call \in WatchCalls, p \in WatchPlans \ X}
  ELSE {}

FlushOutcomes(X) == IF queue # <<>> THEN {doFlush(p) : p \in FlushPlans \ X} ELSE {}

\* the result of every operation that can be made in the current state
Outcomes ==
  WriteOutcomes({}) \cup {getComputed(c) : c \in ComputedSet} \cup WatchOutcomes({})
    \cup {doUnwatch(wid) : wid \in UserWatchers} \cup FlushOutcomes({})

\* the result of every operation in which an unwatch function can be called:
\* unwatch() itself, and the operations in which a callback calls one
UnwatchingOutcomes ==
  WriteOutcomes({NoPlan}) \cup WatchOutcomes({NoPlan})
    \cup {doUnwatch(wid) : wid \in UserWatchers} \cup FlushOutcomes({NoPlan})

IsEv(event, kind, wid) == event.e = kind /\ event.w = wid

\* the places of the trace where hook kind of watcher wid ran
Idx(log, kind, wid) == {i \in DOMAIN log : IsEv(log[i], kind, wid)}

SetMax(S) == CHOOSE x \in S : \A y \in S : y <= x

SetMin(S) == CHOOSE x \in S : \A y \in S : x <= y

\* Dep.target at the moment of an event
EvTarget(event) ==
  IF event.stack = <<>> THEN NoTarget ELSE event.stack[Len(event.stack)]

\* every run of the getter of watcher cw is the first thing a read of the
\* computed property does
RunsOnReadOnly(log, cw) ==
  \A j \in Idx(log, "get", cw) : j > 1 /\ IsEv(log[j - 1], "read", cw)

\* every run of the getter of cw has its own dirty transition: the watcher
\* was dirty when the step began, or its update hook ran since its last run
OncePerDirty(log, cw, dirty0) ==
  \A j \in Idx(log, "get", cw) :
    LET prev == {i \in Idx(log, "get", cw) : i < j}
        lo   == IF prev = {} THEN 0 ELSE SetMax(prev)
    IN  \/ lo = 0 /\ dirty0
        \/ \E i \in (lo + 1)..(j - 1) : IsEv(log[i], "update", cw)

\* C1: the getter of a computed property runs only on a read that finds its
\* watcher dirty, once per dirty transition; a read that finds the watcher
\* clean returns the cached value and runs nothing
C1_GetterRunsOncePerDirty ==
  \A c \in ComputedSet :
    LET cw == ComputedWatcher(c)
        r  == getComputed(c)
    IN  /\ IF watchers[cw].dirty
           THEN /\ Cardinality(Idx(r.log, "get", cw)) = 1
                /\ ~r.w[cw].dirty
                /\ r.ret = r.w[cw].value
           ELSE /\ Idx(r.log, "get", cw) = {}
                /\ r.ret = watchers[cw].value
                /\ r.w = watchers
        /\ \A o \in Outcomes :
             /\ RunsOnReadOnly(o.log, cw)
             /\ OncePerDirty(o.log, cw, watchers[cw].dirty)

\* both has been evaluated (a = 1, b = 1 gave 1) and its watcher is clean:
\* the next reads are served from the cache
C1_Witness ==
  LET cw == ComputedWatcher("both")
  IN  /\ ~watchers[cw].dirty
      /\ watchers[cw].value = Num(1)
      /\ watchers[cw].deps = {"a", "b"}
      /\ getComputed("both").log = <<Event("read", cw, "both", <<>>, Num(1))>>

\* C2: a write that changes a field a computed watcher depends on runs the
\* watcher's update hook, which leaves the watcher dirty and does not run its
\* getter; the getter runs next as part of a read of the computed property
C2_WriteDirtiesOnly ==
  \A c \in ComputedSet :
    LET cw == ComputedWatcher(c)
    IN  /\ \A f \in Fields, v \in Vals : \A p \in WritePlans(f) :
             \A r \in {setData(f, v, p), setProxy(f, v, p)} :
               (cw \in subs[f] /\ v # data[f]) =>
                 /\ Idx(r.log, "update", cw) # {}
                 /\ \A u \in Idx(r.log, "update", cw) :
                      /\ u < Len(r.log) => ~IsEv(r.log[u + 1], "get", cw)
                      /\ (\A j \in Idx(r.log, "get", cw) : j < u) => r.w[cw].dirty
                 /\ RunsOnReadOnly(r.log, cw)

\* both is dirty and still holds the value of its last run, which is no
\* longer what its getter would return
C2_Witness ==
  LET cw == ComputedWatcher("both")
  IN  /\ watchers[cw].dirty
      /\ watchers[cw].value = Num(1)
      /\ data["a"] = NaN

\* the active user watchers of computed property c whose last run is up to
\* date (they are not waiting in the queue)
Watching(c) ==
  {t \in UserWatchers :
     /\ watchers[t].active
     /\ watchers[t].expr.name = c
     /\ \A i \in DOMAIN queue : queue[i] # t}

\* C3: a computed property read while a watcher is the active target leaves
\* that watcher subscribed to every Dep the computed watcher holds, so a
\* change of any of them runs its update hook; a read with no active target
\* subscribes nobody but the computed watcher itself
C3_ReadPropagatesDeps ==
  /\ \A o \in Outcomes : \A i \in DOMAIN o.log :
       LET t  == EvTarget(o.log[i])
           cw == o.log[i].w
       IN  (o.log[i].e = "read" /\ t # NoTarget /\ o.w[t].active) =>
             \A f \in o.w[cw].deps : t \in o.subs[f] /\ f \in o.w[t].deps
  /\ \A c \in ComputedSet :
       \A f \in Fields :
         getComputed(c).subs[f] \ {ComputedWatcher(c)} = subs[f] \ {ComputedWatcher(c)}
  /\ \A c \in ComputedSet : \A t \in Watching(c) :
       \A f \in watchers[ComputedWatcher(c)].deps : t \in subs[f]
  /\ \A f \in Fields : \A v \in Vals \ {data[f]}, p \in WritePlans(f) :
       \A r \in {setData(f, v, p)} :
         \A c \in ComputedSet : \A t \in Watching(c) :
           f \in watchers[ComputedWatcher(c)].deps => Idx(r.log, "update", t) # {}

\* a watcher of both is subscribed to the Dep of b, a field it never reads
\* itself
C3_Witness ==
  \E t \in UserWatchers :
    /\ watchers[t].active
    /\ watchers[t].expr.name = "both"
    /\ t \in subs["b"]
    /\ t \in subs["a"]

\* the hooks of watcher wid that a trace shows running from place lo on
HooksAfter(log, wid, lo, kinds) ==
  {i \in DOMAIN log : i > lo /\ log[i].w = wid /\ log[i].e \in kinds}

InQueue(q, wid) == \E i \in DOMAIN q : q[i] = wid

\* C7: once a watcher's unwatch function has returned the watcher is in the
\* subscriber list of no Dep, and no operation made afterwards runs its
\* update hook, its getter or its callback
C7_UnwatchedIsSilent ==
  LET Unwatched == {wid \in UserWatchers : watchers[wid].unwatched}
  IN  /\ \A wid \in Unwatched :
           /\ ~watchers[wid].active
           /\ \A f \in Fields : wid \notin subs[f]
      /\ Unwatched # {} =>
           \A o \in Outcomes : \A wid \in Unwatched :
             /\ HooksAfter(o.log, wid, 0, {"update", "get", "cb"}) = {}
             /\ \A f \in Fields : wid \notin o.subs[f]
             /\ o.w[wid] = watchers[wid]

\* a watcher that was subscribed to a has been unwatched, and a is written
C7_Witness ==
  \E wid \in UserWatchers :
    /\ watchers[wid].unwatched
    /\ "a" \in watchers[wid].deps
    /\ \E v \in Vals : v # data["a"] /\ setData("a", v, NoPlan).data["a"] = v

\* C8: from the moment the unwatch function of a watcher is called, before
\* the flush or from the callback of another watcher during it, the watcher's
\* getter and callback do not run, although the watcher is in the queue
C8_UnwatchedWhileQueued ==
  /\ \A o \in UnwatchingOutcomes : \A wid \in DOMAIN o.w :
       \A i \in Idx(o.log, "unwatch", wid) :
         HooksAfter(o.log, wid, i, {"get", "cb"}) = {}
  /\ \A wid \in UserWatchers :
       (watchers[wid].unwatched /\ InQueue(queue, wid)) =>
         \A p \in FlushPlans :
           LET r == doFlush(p)
           IN  /\ HooksAfter(r.log, wid, 0, {"get", "cb"}) = {}
               /\ r.w[wid].value = watchers[wid].value
  /\ \A by \in UserWatchers, un \in UserWatchers :
       (/\ by # un
        /\ InQueue(queue, by) /\ InQueue(queue, un)
        /\ watchers[by].active /\ watchers[un].active) =>
         LET r == doFlush([by |-> by, un |-> un, does |-> "unwatch"])
         IN  (by < un /\ Idx(r.log, "cb", by) # {}) =>
               /\ Idx(r.log, "unwatch", un) # {}
               /\ HooksAfter(r.log, un, 0, {"get", "cb"}) = {}

\* two watchers are queued and the callback of the first unwatches the
\* second during the flush
C8_Witness ==
  \E by \in UserWatchers, un \in UserWatchers :
    /\ by < un
    /\ InQueue(queue, by) /\ InQueue(queue, un)
    /\ watchers[by].active /\ watchers[un].active
    /\ LET r == doFlush([by |-> by, un |-> un, does |-> "unwatch"])
       IN  /\ Idx(r.log, "cb", by) # {}
           /\ Idx(r.log, "unwatch", un) # {}
           /\ ~r.w[un].active

\* a watcher is still queued when its unwatch function has returned
C8_WitnessBeforeFlush ==
  \E wid \in UserWatchers : watchers[wid].unwatched /\ InQueue(queue, wid)

\* C9: writing to a field the value it holds (the same value, or NaN over
\* NaN), on the data object or through the proxy setter, runs no hook of any
\* watcher and changes nothing
C9_SameValueWriteIsSilent ==
  \A f \in Fields : \A p \in WritePlans(f) :
    \A r \in {setData(f, data[f], p), setProxy(f, data[f], p)} :
      /\ r.log = <<>>
      /\ r.w = watchers
      /\ r.queue = queue
      /\ r.subs = subs
      /\ r.data = data

\* NaN is written over NaN in a field that has an active user watcher
\* subscribed, while the other field holds a number
C9_Witness ==
  \E f \in Fields, wid \in UserWatchers :
    /\ data[f] = NaN
    /\ watchers[wid].active
    /\ wid \in subs[f]
    /\ \E g \in Fields : data[g] = Num(1)
    /\ setProxy(f, NaN, NoPlan).log = <<>>

\* the last run of the getter of watcher wid in a trace, 0 if there is none
LastGet(log, wid) ==
  IF Idx(log, "get", wid) = {} THEN 0 ELSE SetMax(Idx(log, "get", wid))

OnStack(stack, wid) == \E i \in DOMAIN stack : stack[i] = wid

\* the fields read while the evaluation of wid that began at place j was in
\* progress, reads made by getters it called included
ReadDuring(log, j, wid) ==
  {log[i].k : i \in {n \in DOMAIN log : n > j /\ log[n].e = "touch" /\ OnStack(log[n].stack, wid)}}

\* the fields the getter of wid read itself (wid was Dep.target)
ReadByOwnGetter(log, j, wid) ==
  {log[i].k : i \in {n \in DOMAIN log : n > j /\ log[n].e = "touch" /\ log[n].w = wid}}

\* the computed watchers whose property the getter of wid read
ComputedRead(log, j, wid) ==
  {log[i].w : i \in {n \in DOMAIN log : n > j /\ log[n].e = "read" /\ EvTarget(log[n]) = wid}}

\* C10 as stated: after a run of a watcher's getter, its deps are exactly the
\* fields read during that run
C10_DepsAreFieldsRead ==
  \A o \in Outcomes : \A wid \in DOMAIN o.w :
    LastGet(o.log, wid) # 0 =>
      o.w[wid].deps = ReadDuring(o.log, LastGet(o.log, wid), wid)

\* C10: after a run of a watcher's getter, its deps are exactly the fields
\* its getter read itself together with the Deps held by each computed
\* property it read; an active watcher is in the subscriber list of exactly
\* those Deps
C10_DepsAreReadsAndComputedDeps ==
  \A o \in Outcomes : \A wid \in DOMAIN o.w :
    LET j == LastGet(o.log, wid)
        expected == ReadByOwnGetter(o.log, j, wid)
                      \cup UNION {o.w[cw].deps : cw \in ComputedRead(o.log, j, wid)}
    IN  j # 0 =>
          /\ o.w[wid].deps = expected
          /\ o.w[wid].newDeps = {}
          /\ o.w[wid].active => \A f \in Fields : wid \in o.subs[f] <=> f \in expected

\* both is clean and a watcher of it is created: the run of the new
\* watcher's getter reads no field, and the watcher holds the Deps of both
C10_Witness ==
  /\ ~watchers[ComputedWatcher("both")].dirty
  /\ watchers[ComputedWatcher("both")].deps = {"a", "b"}
  /\ Cardinality(UserWatchers) < MaxUserWatchers
  /\ LET r   == doWatch([kind |-> "path", name |-> "both"], CbFunction, [sync |-> FALSE, immediate |-> FALSE], NoPlan)
         wid == Len(watchers) + 1
     IN  /\ ReadDuring(r.log, LastGet(r.log, wid), wid) = {}
         /\ r.w[wid].deps = {"a", "b"}

\* a dependency that a branch of the getter no longer reads is dropped: both
\* held a and b, a became NaN, and the next run leaves it with a alone
C10_WitnessShrink ==
  /\ data["a"] = NaN
  /\ watchers[ComputedWatcher("both")].dirty
  /\ watchers[ComputedWatcher("both")].deps = {"a", "b"}
  /\ getComputed("both").w[ComputedWatcher("both")].deps = {"a"}

(***************************************************************************)
(* provide / inject                                                        *)
(***************************************************************************)
RECURSIVE Chain(_, _)

\* the $parent chain of vm, vm first
Chain(insts, vm) ==
  IF vm = 0 THEN <<>> ELSE <<vm>> \o Chain(insts, insts[vm].parent)

Provides(inst, provideKey) ==
  inst.provided.truthy /\ provideKey \in DOMAIN inst.provided.map

\* the places of the chain of vm that provide provideKey
Providers(insts, vm, provideKey) ==
  {d \in DOMAIN Chain(insts, vm) : Provides(insts[Chain(insts, vm)[d]], provideKey)}

\* what the nearest provider holds under provideKey
NearestProvided(insts, vm, provideKey) ==
  insts[Chain(insts, vm)[SetMin(Providers(insts, vm, provideKey))]].provided.map[provideKey]

\* the tree with one more instance, nested in the last one created, at the
\* moment its injections are resolved
WithChild ==
  Append(instances, [parent |-> Len(instances), provided |-> NoProvided,
                     inject |-> NoInject, bound |-> EmptyObject, warned |-> {},
                     hooks |-> <<>>])

NewId == Len(instances) + 1

InjectKeys(inject) == DOMAIN inject.entries \ {"__ob__"}

\* C4: each injected key resolves to what the nearest provider of its source
\* key on the $parent chain holds, whatever is provided further up
C4_NearestProviderWins ==
  /\ \A inject \in InjectOptions :
       LET insts == WithChild
           r     == resolveInject(insts, NewId, inject)
       IN  \A key \in InjectKeys(inject) :
             Providers(insts, NewId, inject.entries[key].from) # {} =>
               /\ key \in DOMAIN r.result
               /\ r.result[key] = NearestProvided(insts, NewId, inject.entries[key].from)
  /\ \A vm \in DOMAIN instances :
       \A key \in InjectKeys(instances[vm].inject) :
         LET from == instances[vm].inject.entries[key].from
             up   == instances[vm].parent
         IN  Providers(instances, up, from) # {} =>
               /\ key \in DOMAIN instances[vm].bound
               /\ instances[vm].bound[key] = NearestProvided(instances, up, from)

\* the owner provides dark, the owner's owner provides light, and the
\* instance is bound to dark
C4_Witness ==
  \E vm \in DOMAIN instances :
    LET up == instances[vm].parent
    IN  /\ up # 0 /\ instances[up].parent # 0
        /\ Provides(instances[up], ThemeKey)
        /\ instances[up].provided.map[ThemeKey] = Value("dark")
        /\ Provides(instances[instances[up].parent], ThemeKey)
        /\ instances[instances[up].parent].provided.map[ThemeKey] = Value("light")
        /\ "theme" \in DOMAIN instances[vm].bound
        /\ instances[vm].bound["theme"] = Value("dark")

\* the value a declared default stands for on instance vm
DefaultFor(entry, vm) ==
  IF entry.default.type = "function" THEN callFactory(vm) ELSE entry.default.value

\* C5: a declared default is used exactly when no instance of the chain
\* provides the source key: the value itself, or for a function what it
\* returns when called on the consuming instance; with a provider the key
\* resolves to the provided value and the factory is not called
C5_DefaultIffNoProvider ==
  /\ \A inject \in InjectOptions :
       LET insts == WithChild
           r     == resolveInject(insts, NewId, inject)
       IN  \A key \in InjectKeys(inject) :
             LET entry == inject.entries[key]
             IN  entry.hasDefault =>
                   /\ key \in DOMAIN r.result
                   /\ IF Providers(insts, NewId, entry.from) = {}
                      THEN r.result[key] = DefaultFor(entry, NewId)
                      ELSE /\ r.result[key] = NearestProvided(insts, NewId, entry.from)
                           /\ r.result[key].s # "made"
  /\ \A vm \in DOMAIN instances :
       \A key \in InjectKeys(instances[vm].inject) :
         LET entry == instances[vm].inject.entries[key]
         IN  (entry.hasDefault /\ Providers(instances, instances[vm].parent, entry.from) = {}) =>
               /\ key \in DOMAIN instances[vm].bound
               /\ instances[vm].bound[key] = DefaultFor(entry, vm)

\* an instance with an owner and no provider above it is bound to what its
\* default factory returned for it
C5_Witness ==
  \E vm \in DOMAIN instances :
    /\ instances[vm].parent # 0
    /\ Providers(instances, vm, ThemeKey) = {}
    /\ "color" \in DOMAIN instances[vm].bound
    /\ instances[vm].bound["color"] = callFactory(vm)

\* an instance whose owner provides the key is bound to the provided value,
\* not to its default
C5_WitnessProvided ==
  \E vm \in DOMAIN instances :
    /\ instances[vm].parent # 0
    /\ Provides(instances[instances[vm].parent], ThemeKey)
    /\ "color" \in DOMAIN instances[vm].bound
    /\ instances[vm].inject.entries["color"].hasDefault
    /\ instances[vm].bound["color"] = Value("light")

\* an injected key for which there is neither a provider nor a default
Unresolved(insts, vm, up, entry) ==
  ~entry.hasDefault /\ Providers(insts, up, entry.from) = {}

\* C6 as stated: with no provider and no default, "not found" is reported
\* and the key is bound on the instance with the value undefined
C6_NotFoundBindsUndefined ==
  \A vm \in DOMAIN instances :
    \A key \in InjectKeys(instances[vm].inject) :
      Unresolved(instances, vm, instances[vm].parent, instances[vm].inject.entries[key]) =>
        /\ key \in instances[vm].warned
        /\ key \in DOMAIN instances[vm].bound
        /\ instances[vm].bound[key] = UndefinedValue

\* C6: with no provider and no default, "not found" is reported unless the
\* build is a production build, and the key gets no entry in the result: no
\* property is installed for it on the instance; nothing else is reported
\* as not found
C6_NotFoundBindsNothing ==
  /\ \A inject \in InjectOptions :
       LET insts == WithChild
           r     == resolveInject(insts, NewId, inject)
           after == initInjections(insts, NewId, inject)
       IN  \A key \in InjectKeys(inject) :
             IF Unresolved(insts, NewId, NewId, inject.entries[key])
             THEN /\ key \notin DOMAIN r.result
                  /\ key \notin DOMAIN after[NewId].bound
                  /\ key \in r.warned <=> ~production
             ELSE key \notin r.warned /\ key \in DOMAIN after[NewId].bound
  /\ \A vm \in DOMAIN instances :
       \A key \in InjectKeys(instances[vm].inject) :
         Unresolved(instances, vm, instances[vm].parent, instances[vm].inject.entries[key]) =>
           /\ key \notin DOMAIN instances[vm].bound
           /\ key \in instances[vm].warned <=> ~production

\* an instance injects theme with no default under owners that provide
\* nothing: it has no property theme, and the warning was given
C6_Witness ==
  \E vm \in DOMAIN instances :
    /\ instances[vm].parent # 0
    /\ instances[vm].inject.given
    /\ "theme" \in DOMAIN instances[vm].inject.entries
    /\ Providers(instances, vm, ThemeKey) = {}
    /\ instances[vm].bound = EmptyObject
    /\ instances[vm].warned = {"theme"}

(***************************************************************************)
(* Nested evaluation                                                       *)
(***************************************************************************)
\* the fields the getter of watcher w reads itself: a path watcher reads its
\* path, the getter of both reads a and b
OwnReads(w) ==
  IF w.expr.kind = "fn" THEN {"a", "b"}
  ELSE IF w.expr.name \in Fields THEN {w.expr.name}
  ELSE {}

\* the runs of Watcher.get begun before place i of the trace and not yet
\* returned there
OpenGets(log, i) ==
  {j \in 1..(i - 1) :
     /\ log[j].e = "get"
     /\ \A n \in (j + 1)..(i - 1) : ~IsEv(log[n], "got", log[j].w)}

\* the watcher whose getter is running at place i of the trace
Evaluating(log, i) ==
  IF OpenGets(log, i) = {} THEN NoTarget ELSE log[SetMax(OpenGets(log, i))].w

\* the operations that run the getter of some watcher
EvaluatingOutcomes == {o \in Outcomes : \E i \in DOMAIN o.log : o.log[i].e = "get"}

\* C11: a read of a field is attributed to the watcher whose getter makes it,
\* the innermost one running, also when that getter runs inside the getter of
\* another watcher; when a getter returns, the active target is the one it
\* was entered under
C11_NestedReadsAttributed ==
  \A o \in EvaluatingOutcomes : \A i \in DOMAIN o.log :
    /\ o.log[i].e = "touch" =>
         /\ o.log[i].w = Evaluating(o.log, i)
         /\ o.log[i].w # NoTarget => o.log[i].k \in OwnReads(o.w[o.log[i].w])
    /\ o.log[i].e = "got" =>
         /\ OpenGets(o.log, i) # {}
         /\ o.log[i].w = Evaluating(o.log, i)
         /\ o.log[i].stack = o.log[SetMax(OpenGets(o.log, i))].stack

\* a watcher of both is created while both is dirty: the getter of both runs
\* inside the getter of the new watcher and reads a and b
C11_Witness ==
  /\ watchers[ComputedWatcher("both")].dirty
  /\ data["a"] = Num(1)
  /\ Cardinality(UserWatchers) < MaxUserWatchers
  /\ \E i \in 1..8 :
       LET l == doWatch([kind |-> "path", name |-> "both"], CbFunction,
                        [sync |-> FALSE, immediate |-> FALSE], NoPlan).log
       IN  /\ i \in DOMAIN l
           /\ l[i].e = "touch"
           /\ l[i].k = "b"
           /\ l[i].stack = <<Len(watchers) + 1, ComputedWatcher("both")>>

(***************************************************************************)
(* Order of the flush                                                      *)
(***************************************************************************)
\* the watchers a changing write of field f schedules: the running, non-sync
\* user watchers subscribed to it
Scheduled(f) ==
  {m \in subs[f] : watchers[m].active /\ ~watchers[m].lazy /\ ~watchers[m].sync}

Queued(st) == {st.queue[i] : i \in DOMAIN st.queue}

\* the flush that follows the step that led to st
flushAfter(st) == flushSchedulerQueue([st EXCEPT !.log = <<>>])

\* the getter of every watcher of Q ran once, the getters by id ascending
AscendingOnce(log, Q) ==
  \A m \in Q :
    /\ Cardinality(Idx(log, "get", m)) = 1
    /\ \A n \in Q : m < n => SetMin(Idx(log, "get", m)) < SetMin(Idx(log, "get", n))

\* the getter of no watcher of Q ran twice, the getters that ran by id ascending
AscendingAtMostOnce(log, Q) ==
  \A m \in Q :
    /\ Cardinality(Idx(log, "get", m)) <= 1
    /\ \A n \in Q :
         (m < n /\ Idx(log, "get", m) # {} /\ Idx(log, "get", n) # {}) =>
           SetMin(Idx(log, "get", m)) < SetMin(Idx(log, "get", n))

\* C12: the non-sync watchers one write schedules are all queued, and the
\* flush runs each of them once, in the order they were created (id
\* ascending); whatever is queued, and whatever a callback unwatches, a flush
\* runs no watcher twice and runs the watchers it runs by id ascending
C12_FlushAscendingOnce ==
  /\ \A f \in Fields : \A v \in Vals \ {data[f]} :
       /\ Scheduled(f) \subseteq Queued(setData(f, v, NoPlan))
       /\ AscendingOnce(flushAfter(setData(f, v, NoPlan)).log, Scheduled(f))
  /\ queue # <<>> =>
       /\ AscendingOnce(doFlush(NoPlan).log, {m \in Queued(Cur) : watchers[m].active})
       /\ \A p \in FlushPlans : AscendingAtMostOnce(doFlush(p).log, Queued(Cur))

\* two non-sync watchers are subscribed to a, nothing is queued, and one
\* write of a queues both
C12_Witness ==
  /\ queue = <<>>
  /\ Cardinality(Scheduled("a")) = 2
  /\ \E v \in Vals \ {data["a"]} : Len(setData("a", v, NoPlan).queue) = 2

\* a later watcher was queued before an earlier one, by two writes
C12_WitnessSorted ==
  /\ Len(queue) = 2
  /\ queue[1] > queue[2]
  /\ watchers[queue[1]].active
  /\ watchers[queue[2]].active

(***************************************************************************)
(* Assignment to a computed property that has no setter                    *)
(***************************************************************************)
\* C16: assigning any value to a computed property without a setter leaves
\* the cached value, the dirty flag, the subscriptions, the data fields and
\* the queue as they were and runs no hook; its only effect is one call of
\* warn() outside production
C16_AssignComputedChangesNothing ==
  \A c \in ComputedSet, v \in Vals, prod \in BOOLEAN :
    /\ setComputed(c, v, prod).data = data
    /\ setComputed(c, v, prod).subs = subs
    /\ setComputed(c, v, prod).w = watchers
    /\ setComputed(c, v, prod).queue = queue
    /\ setComputed(c, v, prod).stack = targetStack
    /\ \A i \in DOMAIN setComputed(c, v, prod).log :
         /\ setComputed(c, v, prod).log[i].e = "warn"
         /\ ~prod
    /\ Len(setComputed(c, v, prod).log) = IF prod THEN 0 ELSE 1

\* both is clean, holds a cached value and subscriptions, is watched, and is
\* assigned another value
C16_Witness ==
  /\ ~watchers[ComputedWatcher("both")].dirty
  /\ watchers[ComputedWatcher("both")].deps = {"a", "b"}
  /\ \E m \in UserWatchers : watchers[m].active /\ watchers[m].expr.name = "both"
  /\ watchers[ComputedWatcher("both")].value = Num(1)
  /\ setComputed("both", NaN, FALSE).log # <<>>

(***************************************************************************)
(* $watch with immediate, and the target stack around user code            *)
(***************************************************************************)
\* the target stacks an operation may be called under: none, or the getter
\* of a running user watcher has just begun
Stacks == {<<>>} \cup {<<t>> : t \in ActiveUserWatchers}

NewWatcher == Len(watchers) + 1

\* vm.$watch(...) called under target stack S
watchUnder(S, e, call, p) ==
  watch([CurP(p) EXCEPT !.stack = S], e, call.cb, call.options)

\* the immediate option the call gives: the one of the handler object when
\* the callback is given as an object
Immediate(call) ==
  IF isPlainObject(call.cb) THEN call.cb.options.immediate ELSE call.options.immediate

\* the value of the watched expression in the current state
ExprValue(e) ==
  IF e.name \in Fields THEN data[e.name]
  ELSE IF Truthy(data["a"]) THEN data["b"] ELSE data["a"]

ImmediateOnce(o, S, e, immediate) ==
  /\ Cardinality(Idx(o.log, "cb", NewWatcher)) = IF immediate THEN 1 ELSE 0
  /\ \A i \in Idx(o.log, "cb", NewWatcher) :
       /\ o.log[i].v = ExprValue(e)
       /\ o.log[i].stack = Append(S, NoTarget)
       /\ \A j \in DOMAIN o.log : (j > i /\ o.log[j].e = "touch") => o.log[j].w = NoTarget

\* two outcomes with the same subscriptions and the same watchers
SameWatchers(o, n) == o.subs = n.subs /\ o.w = n.w

\* the callback of the new watcher reads vm.a
ReadingCb == [by |-> NewWatcher, un |-> 0, does |-> "read"]

\* C18: $watch with immediate calls the callback once before it returns,
\* with the value the watcher got from its first evaluation and under no
\* target, so that what the callback reads subscribes no watcher, the one
\* $watch was called under included; without immediate $watch does not call
\* the callback
C18_ImmediateOnceNoTarget ==
  Cardinality(UserWatchers) < MaxUserWatchers =>
    /\ \A e \in WatchExprs, call \in WatchCalls, p \in WatchPlans :
         ImmediateOnce(watchUnder(<<>>, e, call, p), <<>>, e, Immediate(call))
    /\ \A S \in Stacks, e \in WatchExprs, call \in WatchCalls, p \in ImmediatePlans :
         ImmediateOnce(watchUnder(S, e, call, p), S, e, Immediate(call))
    /\ \A S \in Stacks, e \in WatchExprs, call \in WatchCalls :
         Immediate(call) =>
           SameWatchers(watchUnder(S, e, call, ReadingCb), watchUnder(S, e, call, NoPlan))

\* $watch is called with immediate during the getter of a running watcher,
\* and the callback reads vm.a
C18_Witness ==
  /\ Cardinality(UserWatchers) < MaxUserWatchers
  /\ \E t \in ActiveUserWatchers : \E i \in 1..8 :
       /\ i \in DOMAIN watchUnder(<<t>>, [kind |-> "path", name |-> "both"],
                                  [cb |-> CbFunction,
                                   options |-> [sync |-> FALSE, immediate |-> TRUE]],
                                  ReadingCb).log
       /\ watchUnder(<<t>>, [kind |-> "path", name |-> "both"],
                     [cb |-> CbFunction,
                      options |-> [sync |-> FALSE, immediate |-> TRUE]],
                     ReadingCb).log[i]
            = Event("touch", NoTarget, "a", <<t, NoTarget>>, data["a"])

\* a watcher is created without immediate
C18_WitnessNotImmediate ==
  /\ Len(watchers) > Len(ComputedKeys)
  /\ watchers[Len(watchers)].user
  /\ watchers[Len(watchers)].active

\* the data functions: they read vm.a or not, and return a plain object,
\* throw, or return a number
DataFunctions ==
  [type : {"function"}, reads : BOOLEAN,
   returns : {PlainObject({"a", "b"}), Thrown, [type |-> "number", keys |-> {}]}]

\* o left the target stack as S, and ran the user code under S and no target
BalancedAround(o, S) ==
  /\ o.stack = S
  /\ \A i \in DOMAIN o.log : o.log[i].stack = Append(S, NoTarget)

\* getData under target stack S
getDataUnder(S, fn) == getData([Cur EXCEPT !.stack = S], fn, Vm)

\* C14: getData and $watch leave the target stack as they found it, whatever
\* it holds, also when the data function or the immediate callback throws;
\* the user code runs with one more entry on the stack
C14_TargetStackBalanced ==
  /\ \A S \in Stacks, fn \in DataFunctions : BalancedAround(getDataUnder(S, fn), S)
  /\ Cardinality(UserWatchers) < MaxUserWatchers =>
       \A S \in Stacks, e \in WatchExprs, call \in WatchCalls :
         \A p \in {NoPlan, [by |-> NewWatcher, un |-> 0, does |-> "throw"]} :
           (Immediate(call) \/ p = NoPlan) => watchUnder(S, e, call, p).stack = S

\* the data function and the immediate callback throw, under a running
\* watcher
C14_Witness ==
  /\ Cardinality(UserWatchers) < MaxUserWatchers
  /\ \E t \in ActiveUserWatchers :
       /\ getDataUnder(<<t>>, [type |-> "function", reads |-> TRUE, returns |-> Thrown]).log
            = <<Event("touch", NoTarget, "a", <<t, NoTarget>>, data["a"]),
                Event("error", Vm, "data()", <<t, NoTarget>>, Undefined)>>
       /\ \E i \in 1..8 :
            /\ i \in DOMAIN watchUnder(<<t>>, [kind |-> "path", name |-> "a"],
                                       [cb |-> CbFunction,
                                        options |-> [sync |-> FALSE, immediate |-> TRUE]],
                                       [by |-> NewWatcher, un |-> 0, does |-> "throw"]).log
            /\ watchUnder(<<t>>, [kind |-> "path", name |-> "a"],
                          [cb |-> CbFunction,
                           options |-> [sync |-> FALSE, immediate |-> TRUE]],
                          [by |-> NewWatcher, un |-> 0, does |-> "throw"]).log[i]
                 = Event("error", Vm, "callback", <<t, NoTarget>>, Undefined)

(***************************************************************************)
(* An instance that provides the key it injects                            *)
(***************************************************************************)
\* what key of instance inst is to be bound to when the search for its
\* source starts at the owner: the nearest provider's value, else the
\* default; absent when there is neither
BoundFromOwner(insts, inst, key, self) ==
  IF Providers(insts, inst.parent, inst.inject.entries[key].from) # {}
  THEN key \in DOMAIN inst.bound
         /\ inst.bound[key] = NearestProvided(insts, inst.parent, inst.inject.entries[key].from)
  ELSE IF inst.inject.entries[key].hasDefault
  THEN key \in DOMAIN inst.bound
         /\ inst.bound[key] = DefaultFor(inst.inject.entries[key], self)
  ELSE key \notin DOMAIN inst.bound

\* a new instance nested in the last one, with the given options
Nested(provide, inject) ==
  vueInit(instances, Len(instances), [provide |-> provide, inject |-> inject])

\* the inject options with the one key theme
ThemeInjectOptions ==
  {[given |-> TRUE, entries |-> Object({"theme"}, e)] : e \in InjectEntries}

\* C17: _init resolves the injections, then runs initState, then evaluates
\* the instance's own provide; an instance that provides the key it injects
\* is bound to what the nearest provider above it holds, or to the default,
\* or to nothing, never to what it provides itself
C17_OwnProvideNotInjected ==
  /\ \A vm \in DOMAIN instances :
       /\ instances[vm].hooks = <<"initInjections", "initState", "initProvide">>
       /\ \A key \in InjectKeys(instances[vm].inject) :
            Provides(instances[vm], instances[vm].inject.entries[key].from) =>
              BoundFromOwner(instances, instances[vm], key, vm)
  /\ \A provide \in ProvideOptions, inject \in ThemeInjectOptions :
       /\ Nested(provide, inject)[NewId].hooks
            = <<"initInjections", "initState", "initProvide">>
       /\ Provides(Nested(provide, inject)[NewId], ThemeKey) =>
            BoundFromOwner(Nested(provide, inject), Nested(provide, inject)[NewId],
                           "theme", NewId)

\* an instance provides dark under theme and injects theme; its owner
\* provides light, and the instance is bound to light
C17_Witness ==
  \E vm \in DOMAIN instances :
    /\ instances[vm].parent # 0
    /\ Provides(instances[vm], ThemeKey)
    /\ instances[vm].provided.map[ThemeKey] = Value("dark")
    /\ Provides(instances[instances[vm].parent], ThemeKey)
    /\ instances[instances[vm].parent].provided.map[ThemeKey] = Value("light")
    /\ "theme" \in DOMAIN instances[vm].inject.entries
    /\ "theme" \in DOMAIN instances[vm].bound
    /\ instances[vm].bound["theme"] = Value("light")

\* a root instance provides theme and injects it under color with a default
\* factory: it is bound to what the factory made
C17_WitnessDefault ==
  \E vm \in DOMAIN instances :
    /\ instances[vm].parent = 0
    /\ Provides(instances[vm], ThemeKey)
    /\ "color" \in DOMAIN instances[vm].bound
    /\ instances[vm].bound["color"] = callFactory(vm)

(***************************************************************************)
(* The construction of an instance                                         *)
(***************************************************************************)
\* an instance was constructed and new Vue returned
Constructed == created # NoInstance /\ ~created.thrown

\* the steps that install an injected binding or a prop
Installing == {"validateProp", "defineReactive"}

\* the steps of initState outside the installation of props
NotInstalling == {"initData", "initComputed", "initWatch"}

\* C13: the observing flag is false at every step that installs an injected
\* binding or a prop, and true at every other moment: at the steps of
\* initState that install neither, at every call of observe, and once
\* new Vue has ended, however it ended
C13_FlagOffExactlyWhileInstalling ==
  /\ shouldObserve
  /\ created # NoInstance =>
       /\ \A i \in DOMAIN created.log :
            /\ created.log[i].e \in Installing => ~created.log[i].observing
            /\ created.log[i].e \in NotInstalling => created.log[i].observing
       /\ \A i \in DOMAIN created.observed : created.observed[i].observing

\* a nested instance whose prop has a validator or default factory that
\* throws was constructed while the flag was true, and the flag is left false
C13_Witness ==
  /\ created # NoInstance
  /\ ~created.options.isRoot
  /\ created.thrown
  /\ \E i \in DOMAIN created.log :
       created.log[i] = [e |-> "initProps", k |-> "", observing |-> TRUE]
  /\ \E i \in DOMAIN created.log : created.log[i].e = "validateProp"
  /\ ~shouldObserve

\* the props of a root instance were installed with the flag true
C13_WitnessRoot ==
  /\ created # NoInstance
  /\ created.options.isRoot
  /\ \E i \in DOMAIN created.log :
       created.log[i] = [e |-> "defineReactive", k |-> "p", observing |-> TRUE]

\* the data option is a function that throws, and initData was reached
DataThrows ==
  /\ created # NoInstance
  /\ created.options.data.given
  /\ created.options.data.type = "function"
  /\ created.options.data.returns = Thrown
  /\ \E i \in DOMAIN created.log : created.log[i].e = "initData"

\* the places of the log where step e was taken
Steps(e) == {i \in DOMAIN created.log : created.log[i].e = e}

\* C15: a data function that throws has its error given to handleError, once,
\* with the instance and the label data(); vm._data is the empty object,
\* nothing is thrown out of initData, and initState goes on with the
\* computed properties and then the watchers.  Nothing is given to
\* handleError when the data function returns
C15_DataThrowHandled ==
  /\ DataThrows =>
       /\ created.errors = <<[vm |-> Vm, info |-> "data()"]>>
       /\ created.data = PlainObject({})
       /\ ~created.thrown
       /\ created.observed = <<[value |-> PlainObject({}), asRootData |-> TRUE,
                                observing |-> created.observed[1].observing]>>
       /\ \E i \in Steps("initData"), j \in Steps("initComputed"), k \in Steps("initWatch") :
            i < j /\ j < k
  /\ (created # NoInstance /\ ~DataThrows) => created.errors = <<>>

\* a nested instance with a prop and a data function that reads vm.a and
\* throws was constructed
C15_Witness ==
  /\ DataThrows
  /\ created.options.data.reads
  /\ ~created.options.isRoot
  /\ created.props = {"p"}
  /\ Len(created.errors) = 1

\* C19: of an instance that was constructed, every data key that is also a
\* declared prop leads to vm._props, and every other data key that is not
\* reserved leads to vm._data
C19_PropShadowsData ==
  (Constructed /\ created.options.data.given /\ isPlainObject(created.data)) =>
    \A key \in created.data.keys :
      IF created.options.props.given /\ key \in DeclaredProps(created.options.props)
      THEN key \in DOMAIN created.keys /\ created.keys[key] = "_props"
      ELSE ~isReserved(key) => (key \in DOMAIN created.keys /\ created.keys[key] = "_data")

\* C19 without the injections: when the instance injects no key that is also
\* a prop, every data key that is also a declared prop leads to vm._props,
\* every other data key that is not reserved leads to vm._data, and a
\* reserved data key leads nowhere
C19_PropShadowsDataUnlessInjected ==
  (Constructed /\ created.options.data.given /\ isPlainObject(created.data)
     /\ created.options.inject.keys # <<"a">>) =>
    \A key \in created.data.keys :
      IF created.options.props.given /\ key \in DeclaredProps(created.options.props)
      THEN key \in DOMAIN created.keys /\ created.keys[key] = "_props"
      ELSE IF isReserved(key) THEN key \notin DOMAIN created.keys
      ELSE key \in DOMAIN created.keys /\ created.keys[key] = "_data"

\* an instance that injects a, declares the prop a and has the data key a
\* was constructed: vm.a is the injected binding
C19_Witness ==
  /\ Constructed
  /\ created.options.inject.keys = <<"a">>
  /\ created.options.props.given
  /\ "a" \in DeclaredProps(created.options.props)
  /\ isPlainObject(created.data)
  /\ "a" \in created.data.keys
  /\ created.keys["a"] = "injected"
  /\ "a" \in created.props

\* C20: of an instance that was constructed, vm._data is a plain object, and
\* it is the value that was passed to observe as root data
C20_DataIsObservedPlainObject ==
  Constructed =>
    /\ isPlainObject(created.data)
    /\ \E i \in DOMAIN created.observed :
         created.observed[i].value = created.data /\ created.observed[i].asRootData

\* an instance whose data function returns a number was constructed:
\* vm._data is the number, and observe was given an empty object
C20_Witness ==
  /\ Constructed
  /\ created.options.data.type = "function"
  /\ created.data = [type |-> "number", keys |-> {}]
  /\ created.observed = <<[value |-> PlainObject({}), asRootData |-> TRUE,
                           observing |-> TRUE]>>

====
